---- MODULE Spec2Model ----
(***************************************************************************)
(* Model of src/src/main.ts: one invocation of the action.  run() reads    *)
(* and validates the inputs, builds the request, requestWithRetries        *)
(* performs it with bounded retries, and run() interprets the final        *)
(* response into outputs or a failure.                                     *)
(*                                                                         *)
(* One action is one turn of the event loop: the code between two awaits.  *)
(* Strings the code inspects are sequences of one-character strings.       *)
(***************************************************************************)
EXTENDS Integers, Sequences, FiniteSets, TLC

VARIABLES
    inp,        \* the raw inputs core.getInput returns
    pc,         \* where the invocation is suspended
    req,        \* the request built by run(): method, url, headers
    attempt,    \* requestWithRetries: attempt
    backoffMs,  \* requestWithRetries: backoffMs
    retryKind,  \* which retry branch started the pending sleep
    waitMs,     \* duration of the pending sleep
    res,        \* requestWithRetries: res of the current iteration; then run: res
    body,       \* readJsonSafely: rawText, once the final body was read
    err,        \* the error thrown out of run(), when pc = "thrown"
    seen,       \* history: how the fetches so far ended (response, rejection)
    waits,      \* history: durations passed to sleep(), in order
    outputs,    \* core.setOutput calls, in order
    secrets,    \* values passed to core.setSecret
    failures,   \* messages passed to core.setFailed, in order
    calls       \* the calls of core.* whose arguments are the invocation's
                \* own data, in order: setSecret, setOutput, setFailed, and
                \* the log lines "op:", "request:", "attempt:", "response
                \* body:" and "outputs:" (the lines that echo what one fetch
                \* ended in, lines 122-195, are not recorded)

vars == <<inp, pc, req, attempt, backoffMs, retryKind, waitMs, res, body, err,
          seen, waits, outputs, secrets, failures, calls>>

(***************************************************************************)
(* Strings                                                                 *)
(***************************************************************************)
Lower == {"a","b","c","d","e","f","g","h","i","j","k","l","m",
          "n","o","p","q","r","s","t","u","v","w","x","y","z"}
Upper == {"A","B","C","D","E","F","G","H","I","J","K","L","M",
          "N","O","P","Q","R","S","T","U","V","W","X","Y","Z"}
Digit == {"0","1","2","3","4","5","6","7","8","9"}
Space == {" "}

DigitVal(c) ==
    CASE c = "0" -> 0 [] c = "1" -> 1 [] c = "2" -> 2 [] c = "3" -> 3
      [] c = "4" -> 4 [] c = "5" -> 5 [] c = "6" -> 6 [] c = "7" -> 7
      [] c = "8" -> 8 [] c = "9" -> 9

RECURSIVE TrimStart(_)
TrimStart(s) ==
    IF s # <<>> /\ Head(s) \in Space THEN TrimStart(Tail(s)) ELSE s

RECURSIVE TrimEnd(_)
TrimEnd(s) ==
    IF s # <<>> /\ s[Len(s)] \in Space
    THEN TrimEnd(SubSeq(s, 1, Len(s) - 1)) ELSE s

\* String.prototype.trim
Trim(s) == TrimEnd(TrimStart(s))

AllIn(s, chars) == \A i \in 1..Len(s) : s[i] \in chars

RECURSIVE DecimalValue(_)
DecimalValue(ds) ==
    IF ds = <<>> THEN 0
    ELSE 10 * DecimalValue(SubSeq(ds, 1, Len(ds) - 1)) + DigitVal(ds[Len(ds)])

(***************************************************************************)
(* Number(raw), for strings over digits, sign, point, space and letters:   *)
(* surrounding white space is ignored, the empty string is 0, a decimal    *)
(* literal is its value, anything else is NaN.                             *)
(***************************************************************************)
NaN == [nan |-> TRUE, integer |-> FALSE, v |-> 0]

UnsignedNumber(t) ==
    LET dots == {i \in 1..Len(t) : t[i] = "."} IN
    IF t = <<>> THEN NaN
    ELSE IF AllIn(t, Digit)
    THEN [nan |-> FALSE, integer |-> TRUE, v |-> DecimalValue(t)]
    ELSE IF Cardinality(dots) = 1
    THEN LET d    == CHOOSE i \in dots : TRUE
             whole == SubSeq(t, 1, d - 1)
             frac  == SubSeq(t, d + 1, Len(t))
         IN IF Len(t) > 1 /\ AllIn(whole, Digit) /\ AllIn(frac, Digit)
            THEN [nan |-> FALSE, integer |-> AllIn(frac, {"0"}),
                  v |-> DecimalValue(whole)]
            ELSE NaN
    ELSE NaN

Number(raw) ==
    LET t == Trim(raw) IN
    IF t = <<>> THEN [nan |-> FALSE, integer |-> TRUE, v |-> 0]
    ELSE IF Head(t) = "-"
    THEN LET u == UnsignedNumber(Tail(t)) IN [u EXCEPT !.v = 0 - u.v]
    ELSE IF Head(t) = "+" THEN UnsignedNumber(Tail(t))
    ELSE UnsignedNumber(t)

\* parseInteger: the value, or ok = FALSE when it throws "Invalid <name>"
parseInteger(name, raw) ==
    LET n == Number(raw) IN
    IF n.nan \/ ~n.integer
    THEN [ok |-> FALSE, v |-> 0, name |-> name]
    ELSE [ok |-> TRUE, v |-> n.v, name |-> name]

(***************************************************************************)
(* Constants of main.ts                                                    *)
(***************************************************************************)
MAX_ATTEMPTS == 5
InitialBackoffMs == 500
MaxBackoffMs == 8000
NameMinLen == 3
NameMaxLen == 64

Operations == {"hit", "create", "get", "info", "set", "update", "reset", "delete"}

NameChars == Lower \cup Upper \cup Digit \cup {"_", ".", "-"}

\* requireNonEmpty does not throw
requireNonEmpty(value) == ~(value = <<>> \/ Len(Trim(value)) = 0)

\* validateName does not throw: NAME_RE.test(value)
validateName(value) ==
    /\ Len(value) >= NameMinLen
    /\ Len(value) <= NameMaxLen
    /\ AllIn(value, NameChars)

isAdminOp_NoReset(op) == op = "set" \/ op = "update" \/ op = "delete"

isAdminOp(op) == op = "set" \/ op = "update" \/ op = "reset" \/ op = "delete"

methodFor_AlwaysGet(op) == "GET"

methodFor(op) == IF isAdminOp(op) THEN "POST" ELSE "GET"

(***************************************************************************)
(* URL Builder                                                             *)
(***************************************************************************)
BASE_URL == <<"https:", "/", "/", "abacus.jasoncameron.dev">>

normalizeBaseUrl(url) ==
    IF url # <<>> /\ url[Len(url)] = "/" THEN SubSeq(url, 1, Len(url) - 1) ELSE url

Unreserved == Lower \cup Upper \cup Digit \cup {"-", "_", ".", "!", "~", "*", "'", "(", ")"}

EncodeChar(c) ==
    IF c \in Unreserved THEN <<c>>
    ELSE CASE c = "/" -> <<"%", "2", "F">>
           [] c = " " -> <<"%", "2", "0">>
           [] OTHER   -> <<"%", "?", "?">>

RECURSIVE encodeURIComponent(_)
encodeURIComponent(s) ==
    IF s = <<>> THEN <<>> ELSE EncodeChar(Head(s)) \o encodeURIComponent(Tail(s))

DigitChar(d) ==
    CASE d = 0 -> "0" [] d = 1 -> "1" [] d = 2 -> "2" [] d = 3 -> "3"
      [] d = 4 -> "4" [] d = 5 -> "5" [] d = 6 -> "6" [] d = 7 -> "7"
      [] d = 8 -> "8" [] d = 9 -> "9"

RECURSIVE NatString(_)
NatString(n) ==
    IF n < 10 THEN <<DigitChar(n)>> ELSE NatString(n \div 10) \o <<DigitChar(n % 10)>>

\* String(n) for an integer n
IntString(n) == IF n < 0 THEN <<"-">> \o NatString(0 - n) ELSE NatString(n)

\* An optional value is a sequence of length 0 (undefined) or 1.
Undefined == <<>>
Some(x) == <<x>>

buildUrl_ValueAlways(op, namespace, key, initializer, value) ==
    LET base  == normalizeBaseUrl(BASE_URL)
        path  == <<op, encodeURIComponent(namespace), encodeURIComponent(key)>>
        q1    == IF op = "create" /\ initializer # Undefined
                 THEN <<<<"initializer", IntString(initializer[1])>>>> ELSE <<>>
        q2    == IF value # Undefined
                 THEN <<<<"value", IntString(value[1])>>>> ELSE <<>>
    IN [base |-> base, path |-> path, query |-> q1 \o q2]

buildUrl(op, namespace, key, initializer, value) ==
    LET base  == normalizeBaseUrl(BASE_URL)
        path  == <<op, encodeURIComponent(namespace), encodeURIComponent(key)>>
        q1    == IF op = "create" /\ initializer # Undefined
                 THEN <<<<"initializer", IntString(initializer[1])>>>> ELSE <<>>
        q2    == IF (op = "set" \/ op = "update") /\ value # Undefined
                 THEN <<<<"value", IntString(value[1])>>>> ELSE <<>>
    IN [base |-> base, path |-> path, query |-> q1 \o q2]

(***************************************************************************)
(* Errors.  An Error is the record of what its message says.               *)
(***************************************************************************)
Error(kind, what, status, op) ==
    [kind |-> kind, what |-> what, status |-> status, op |-> op]

NoError == Error("", <<>>, 0, "")

\* requireNonEmpty: "Missing required input: <name>"
MissingInput(name)    == Error("MissingInput", <<name>>, 0, "")
\* validateName: "Invalid <kind>: must match ..."
InvalidName(kind)     == Error("InvalidName", <<kind>>, 0, "")
\* run: "Missing required input: value (required for operation=<op>)"
MissingValue(op)      == Error("MissingValue", <<"value">>, 0, op)
\* parseInteger: "Invalid <name>: expected integer, got ..."
InvalidInteger(name)  == Error("InvalidInteger", <<name>>, 0, "")
\* what fetch rejects with
TransportError(id)    == Error("Transport", <<id>>, 0, "")
\* reading a property of null
NullPayloadTypeError  == Error("TypeError", <<"null">>, 0, "")
\* run: "<payload.error> (operation=<op>)"
PayloadError(text, op) == Error("PayloadError", text, 0, op)
\* run: "Request failed with status <status> (operation=<op>)"
StatusError(status, op) == Error("StatusError", <<>>, status, op)

(***************************************************************************)
(* Inputs of one invocation                                                *)
(***************************************************************************)
Chars(n, c) == [i \in 1..n |-> c]

OperationInputs == Operations \cup {"", "bogus"}
NamespaceInputs == {<<>>, <<" ", " ", " ">>, <<"a", "b">>,
                    <<"b", "a", "d", "/", "k", "e", "y">>,
                    <<"o", "r", "g">>, Chars(NameMaxLen + 1, "a")}
KeyInputs == {<<>>, <<"k">>, <<"b", "u", "i", "l", "d", "-", "1">>}
InitializerInputs == {<<>>, <<"5">>, <<"x">>}
ValueInputs == {<<>>, <<" ">>, <<"-", "3">>, <<"1", ".", "5">>}
AdminKeyInputs == {<<>>, <<" ">>, <<"t", "o", "k">>}

\* The optional inputs an operation never reads (README, "Used by operations")
UnusedInputs(operation) ==
    {"initializer", "value", "admin_key"}
    \ ((IF operation = "create" THEN {"initializer"} ELSE {})
        \cup (IF operation \in {"set", "update"} THEN {"value"} ELSE {})
        \cup (IF operation \in {"set", "update", "reset", "delete"}
             THEN {"admin_key"} ELSE {}))

\* At most this many of the inputs an operation never reads are supplied.
MaxUnusedInputs == 1

Inputs ==
    {i \in [operation : OperationInputs, namespace : NamespaceInputs,
            key : KeyInputs, initializer : InitializerInputs,
            value : ValueInputs, admin_key : AdminKeyInputs] :
        Cardinality({f \in UnusedInputs(i.operation) : i[f] # <<>>})
            <= MaxUnusedInputs}

\* run: core.getInput("operation") || "hit"
OperationOf(i) == IF i.operation = "" THEN "hit" ELSE i.operation

\* run: core.getInput("initializer") || "0"
InitializerRawOf(i) == IF i.initializer = <<>> THEN <<"0">> ELSE i.initializer

\* run, lines 250-271: the first error thrown, NoError when none is
ValidationError(i) ==
    LET op == OperationOf(i) IN
    IF ~requireNonEmpty(i.namespace) THEN MissingInput("namespace")
    ELSE IF ~requireNonEmpty(i.key) THEN MissingInput("key")
    ELSE IF ~validateName(i.namespace) THEN InvalidName("namespace")
    ELSE IF ~validateName(i.key) THEN InvalidName("key")
    ELSE IF isAdminOp(op) /\ ~requireNonEmpty(i.admin_key)
    THEN MissingInput("admin_key")
    ELSE IF (op = "set" \/ op = "update")
            /\ (i.value = <<>> \/ Trim(i.value) = <<>>)
    THEN MissingValue(op)
    ELSE IF op = "create" /\ ~parseInteger("initializer", InitializerRawOf(i)).ok
    THEN InvalidInteger("initializer")
    ELSE IF (op = "set" \/ op = "update") /\ ~parseInteger("value", i.value).ok
    THEN InvalidInteger("value")
    ELSE NoError

\* run, lines 261-264: core.setSecret(adminKey) is reached
AdminKeyMarked(i) ==
    /\ requireNonEmpty(i.namespace) /\ requireNonEmpty(i.key)
    /\ validateName(i.namespace) /\ validateName(i.key)
    /\ isAdminOp(OperationOf(i))
    /\ requireNonEmpty(i.admin_key)

\* run, lines 270-281: the request handed to requestWithRetries
RequestOf(i) ==
    LET op == OperationOf(i)
        initializer == IF op = "create"
                       THEN Some(parseInteger("initializer", InitializerRawOf(i)).v)
                       ELSE Undefined
        value == IF op = "set" \/ op = "update"
                 THEN Some(parseInteger("value", i.value).v) ELSE Undefined
    IN [url     |-> buildUrl(op, i.namespace, i.key, initializer, value),
        method  |-> methodFor(op),
        headers |-> {<<"Accept", <<"application/json">> >>}
                    \cup IF isAdminOp(op)
                         THEN {<<"Authorization", <<"Bearer ">> \o i.admin_key>>}
                         ELSE {}]

(***************************************************************************)
(* The remote side: what one fetch can end in                              *)
(***************************************************************************)
Header(v) == [present |-> TRUE, v |-> v]
NoHeader  == [present |-> FALSE, v |-> <<>>]

\* Retry-After as res.headers.get returns it: null, or the header's text
RetryAfterInputs == {NoHeader, Header(<<>>), Header(<<"2">>), Header(<<"-", "5">>),
                     Header(<<"1", ".", "5">>), Header(<<"s", "o", "o", "n">>)}

OtherStatuses == {200, 302, 404}
ServerStatuses == {500, 503}

Response(status, ra) == [status |-> status, retryAfter |-> ra]

Responses ==
    {Response(st, NoHeader) : st \in OtherStatuses \cup ServerStatuses}
    \cup {Response(429, ra) : ra \in RetryAfterInputs}

TransportErrors == {"ECONNRESET", "ETIMEDOUT"}

\* Response.ok
Ok(status) == status >= 200 /\ status <= 299

(***************************************************************************)
(* Resilient Request Executor: requestWithRetries                          *)
(***************************************************************************)
Min(a, b) == IF a < b THEN a ELSE b
Max(a, b) == IF a > b THEN a ELSE b

AttemptsRemain_OffByOne(a) == a <= MAX_ATTEMPTS

\* attempt < MAX_ATTEMPTS, lines 148 and 169
AttemptsRemain(a) == a < MAX_ATTEMPTS

\* attempt >= MAX_ATTEMPTS, line 191
Exhausted(a) == a >= MAX_ATTEMPTS

IsServerError_Above500(status) == status > 500 /\ status <= 599

\* res.status >= 500 && res.status <= 599
IsServerError(status) == status >= 500 /\ status <= 599

IsRateLimited_Also4xx(status) == status >= 400 /\ status <= 499

IsRateLimited(status) == status = 429

NextBackoff_Linear(b) == Min(b + InitialBackoffMs, MaxBackoffMs)

NextBackoff_Cap4000(b) == Min(b * 2, 4000)

\* Math.min(backoffMs * 2, 8000)
NextBackoff(b) == Min(b * 2, MaxBackoffMs)

\* the header is used: `ra ? ... : backoffMs`
Truthy(ra) == ra.present /\ ra.v # <<>>

RetryAfterWait_Ignored(ra, backoff) == backoff

\* line 150, when parseInteger does not throw
RetryAfterWait(ra, backoff) ==
    IF Truthy(ra) THEN Max(0, parseInteger("Retry-After", ra.v).v) ELSE backoff

Sleep(kind, ms) ==
    /\ pc' = "sleeping"
    /\ retryKind' = kind
    /\ waitMs' = ms
    /\ waits' = Append(waits, ms)
    /\ UNCHANGED err

Throw(e) ==
    /\ pc' = "thrown"
    /\ err' = e
    /\ UNCHANGED <<retryKind, waitMs, waits>>

\* the catch block, lines 187-198
Catch(e) ==
    IF Exhausted(attempt) THEN Throw(e) ELSE Sleep("network", backoffMs)

(***************************************************************************)
(* Response Interpreter: readJsonSafely and the rest of run                *)
(***************************************************************************)
JNull    == [t |-> "null",    n |-> 0, s |-> <<>>, f |-> <<>>]
JNum(n)  == [t |-> "number",  n |-> n, s |-> <<>>, f |-> <<>>]
JStr(s)  == [t |-> "string",  n |-> 0, s |-> s,    f |-> <<>>]
JBool(b) == [t |-> "boolean", n |-> IF b THEN 1 ELSE 0, s |-> <<>>, f |-> <<>>]
JObj(f)  == [t |-> "object",  n |-> 0, s |-> <<>>, f |-> f]

EmptyObject == JObj(<<>>)

CreatePayload ==
    JObj(("value" :> JNum(0)) @@ ("namespace" :> JStr(<<"org">>))
         @@ ("key" :> JStr(<<"k">>))
         @@ ("admin_key" :> JStr(<<"s", "e", "c", "r", "e", "t">>)))

FullPayload ==
    JObj(("value" :> JNum(7)) @@ ("namespace" :> JStr(<<"org">>))
         @@ ("key" :> JNull)
         @@ ("admin_key" :> JStr(<<"s", "e", "c", "r", "e", "t">>))
         @@ ("exists" :> JBool(TRUE)) @@ ("expires_in" :> JNum(60))
         @@ ("expires_str" :> JStr(<<"1m">>)) @@ ("full_key" :> JStr(<<"org:k">>))
         @@ ("is_genuine" :> JBool(FALSE))
         @@ ("status" :> JStr(<<"ok">>)) @@ ("message" :> JStr(<<"deleted">>))
         @@ ("error" :> JNum(42))
         @@ ("ADMIN_KEY" :> JStr(<<"S", "H", "O", "U", "T">>))
         @@ ("meta" :> JObj(("admin_key" :> JStr(<<"n", "e", "s", "t">>))
                            @@ ("AUTHORIZATION" :> JStr(<<"B", "e", "a", "r">>)))))

\* Response bodies, by their text
Bodies == {"", "Bad Gateway", "null", "7", "{\"error\":\"boom\"}",
           "{create}", "{full}"}

\* JSON.parse: the value, or << >> when it throws
JsonParse(rawText) ==
    CASE rawText = "null"  -> Some(JNull)
      [] rawText = "7"     -> Some(JNum(7))
      [] rawText = "{\"error\":\"boom\"}" -> Some(JObj("error" :> JStr(<<"boom">>)))
      [] rawText = "{create}" -> Some(CreatePayload)
      [] rawText = "{full}"   -> Some(FullPayload)
      [] OTHER -> <<>>

readJsonSafely(rawText) ==
    IF rawText = "" THEN EmptyObject
    ELSE IF JsonParse(rawText) # <<>> THEN JsonParse(rawText)[1]
    ELSE JObj("error" :> JStr(<<rawText>>))

\* payload?.[k]: undefined on null, on a primitive and on a missing field
Get(payload, k) ==
    IF payload.t = "object" /\ k \in DOMAIN payload.f
    THEN Some(payload.f[k]) ELSE Undefined

\* String(value) of a JSON value that is not null
StringOf(v) ==
    CASE v.t = "string"  -> v.s
      [] v.t = "number"  -> IntString(v.n)
      [] v.t = "boolean" -> IF v.n = 1 THEN <<"true">> ELSE <<"false">>
      [] OTHER           -> <<"[object Object]">>

setOutputIfPresent(name, value) ==
    IF value = Undefined \/ value[1].t = "null" THEN <<>>
    ELSE <<<<name, StringOf(value[1])>>>>

\* run, lines 296-319, for a payload that is not null
OutputsOf(op, payload) ==
    setOutputIfPresent("value", Get(payload, "value"))
    \o (IF op = "create"
        THEN setOutputIfPresent("namespace", Get(payload, "namespace"))
             \o setOutputIfPresent("key", Get(payload, "key"))
             \o setOutputIfPresent("admin_key", Get(payload, "admin_key"))
        ELSE <<>>)
    \o (IF op = "info"
        THEN setOutputIfPresent("exists", Get(payload, "exists"))
             \o setOutputIfPresent("expires_in", Get(payload, "expires_in"))
             \o setOutputIfPresent("expires_str", Get(payload, "expires_str"))
             \o setOutputIfPresent("full_key", Get(payload, "full_key"))
             \o setOutputIfPresent("is_genuine", Get(payload, "is_genuine"))
        ELSE <<>>)
    \o (IF op = "delete"
        THEN setOutputIfPresent("status", Get(payload, "status"))
             \o setOutputIfPresent("message", Get(payload, "message"))
        ELSE <<>>)

HasStringError(payload) ==
    Get(payload, "error") # Undefined /\ Get(payload, "error")[1].t = "string"

HttpError_NoPayload(payload, status, op) == StatusError(status, op)

\* run, lines 288-294: the Error thrown for a non-2xx response
HttpError(payload, status, op) ==
    IF HasStringError(payload)
    THEN PayloadError(Get(payload, "error")[1].s, op)
    ELSE StatusError(status, op)

(***************************************************************************)
(* Logging: truncate, sanitizeForLogs, logOutputs, and the recorded calls  *)
(* A text is a sequence of pieces; its length is counted in pieces, and    *)
(* every text of the model is far below the limit.                         *)
(***************************************************************************)
MAX_LOG_BODY_CHARS == 2000

truncate(s, max) ==
    IF Len(s) <= max THEN s
    ELSE SubSeq(s, 1, max) \o <<"... [truncated ">> \o NatString(Len(s) - max)
         \o <<" chars]">>

\* line 88: a Set of exact spellings
redactKeys == {"admin_key", "authorization", "Authorization"}

Mask == JStr(<<"*", "*", "*">>)

\* the replacer of lines 97-100, as JSON.stringify applies it to every
\* property at every depth
RECURSIVE Replace(_)
Replace(v) ==
    IF v.t = "object"
    THEN JObj([k \in DOMAIN v.f |->
                 IF k \in redactKeys THEN Mask ELSE Replace(v.f[k])])
    ELSE v

\* the order of the members in the texts of Bodies and in logOutputs' out
FieldOrder ==
    <<"value", "namespace", "key", "admin_key", "exists", "expires_in",
      "expires_str", "full_key", "is_genuine", "status", "message", "error",
      "ADMIN_KEY", "meta", "AUTHORIZATION">>

MemberIn(v, k) == k \in DOMAIN v.f

KeysOf(v) == SelectSeq(FieldOrder, LAMBDA k : MemberIn(v, k))

Quote(s) == <<"\"">> \o s \o <<"\"">>

Indent(depth) == [i \in 1..depth |-> "  "]

\* JSON.stringify(value, replacer, 2) after the replacer was applied
RECURSIVE Stringify(_, _)
RECURSIVE Members(_, _, _)
Stringify(v, depth) ==
    CASE v.t = "string"  -> Quote(v.s)
      [] v.t = "number"  -> IntString(v.n)
      [] v.t = "boolean" -> IF v.n = 1 THEN <<"true">> ELSE <<"false">>
      [] v.t = "null"    -> <<"null">>
      [] OTHER ->
           IF KeysOf(v) = <<>> THEN <<"{}">>
           ELSE <<"{">> \o Members(v, KeysOf(v), depth + 1)
                \o <<"\n">> \o Indent(depth) \o <<"}">>

Members(v, keys, depth) ==
    IF keys = <<>> THEN <<>>
    ELSE <<"\n">> \o Indent(depth) \o Quote(<<Head(keys)>>) \o <<": ">>
         \o Stringify(v.f[Head(keys)], depth)
         \o (IF Len(keys) > 1 THEN <<",">> ELSE <<>>)
         \o Members(v, Tail(keys), depth)

\* lines 87-107; JSON.stringify does not throw on a value JSON.parse made
sanitizeForLogs(input) ==
    IF input.t = "string" THEN truncate(input.s, MAX_LOG_BODY_CHARS)
    ELSE truncate(Stringify(Replace(input), 0), MAX_LOG_BODY_CHARS)

\* logOutputs, lines 219-238: the object out
OutOf(operation, payload) ==
    LET names == {"value"}
                 \cup (IF operation = "create"
                       THEN {"namespace", "key", "admin_key"} ELSE {})
                 \cup (IF operation = "info"
                       THEN {"exists", "expires_in", "expires_str", "full_key",
                             "is_genuine"} ELSE {})
                 \cup (IF operation = "delete" THEN {"status", "message"} ELSE {})
    IN JObj([k \in {n \in names : Get(payload, n) # Undefined} |->
               IF k = "admin_key" THEN Mask ELSE payload.f[k]])

Call(fn, tag, arg) == [fn |-> fn, tag |-> tag, arg |-> arg]

\* logOutputs, line 240
logOutputs(operation, payload) ==
    <<Call("info", "outputs", sanitizeForLogs(OutOf(operation, payload)))>>

\* line 286: payload ?? rawText
LogResponseBody(payload, rawText) ==
    <<Call("debug", "response body",
           sanitizeForLogs(IF payload.t = "null" THEN JStr(<<rawText>>)
                           ELSE payload))>>

\* lines 259-264 and 135-139: what run() and the executor call up to the
\* first fetch
RunCalls(i) ==
    LET op == OperationOf(i)
        named == /\ requireNonEmpty(i.namespace) /\ requireNonEmpty(i.key)
                 /\ validateName(i.namespace) /\ validateName(i.key)
    IN IF ~named THEN <<>>
       ELSE <<Call("info", "op", <<op, i.namespace, i.key>>)>>
            \o (IF AdminKeyMarked(i)
                THEN <<Call("setSecret", "admin_key", i.admin_key)>> ELSE <<>>)
            \o (IF ValidationError(i) = NoError
                THEN <<Call("info", "request",
                            [method |-> RequestOf(i).method,
                             url |-> RequestOf(i).url]),
                       Call("info", "attempt", <<1, MAX_ATTEMPTS>>)>>
                ELSE <<>>)

\* lines 296-321: the calls of a successful interpretation, in order
SuccessCalls(op, payload) ==
    [j \in 1..Len(OutputsOf(op, payload)) |->
        Call("setOutput", OutputsOf(op, payload)[j][1], OutputsOf(op, payload)[j][2])]
    \o (IF op = "create" /\ Get(payload, "admin_key") # Undefined
           /\ Get(payload, "admin_key")[1].t = "string"
        THEN <<Call("setSecret", "admin_key", Get(payload, "admin_key")[1].s)>>
        ELSE <<>>)
    \o logOutputs(op, payload)

\* the two operators above, tabulated over the bodies and operations
ResponseBodyCalls ==
    [rawText \in Bodies |-> LogResponseBody(readJsonSafely(rawText), rawText)]

InterpretationCalls ==
    [op \in Operations \cup {"bogus"} |->
        [rawText \in Bodies \ {"null"} |->
            SuccessCalls(op, readJsonSafely(rawText))]]

(***************************************************************************)
(* The invocation                                                          *)
(***************************************************************************)
Init ==
    /\ inp \in Inputs
    /\ pc = "start"
    /\ req = Undefined
    /\ attempt = 0
    /\ backoffMs = 0
    /\ retryKind = ""
    /\ waitMs = 0
    /\ res = Undefined
    /\ body = Undefined
    /\ err = NoError
    /\ seen = {}
    /\ waits = <<>>
    /\ outputs = <<>>
    /\ secrets = {}
    /\ failures = <<>>
    /\ calls = <<>>

\* run, lines 243-283, and requestWithRetries up to its first fetch
Run ==
    /\ pc = "start"
    /\ secrets' = IF AdminKeyMarked(inp) THEN secrets \cup {inp.admin_key} ELSE secrets
    /\ calls' = calls \o RunCalls(inp)
    /\ IF ValidationError(inp) # NoError
       THEN /\ pc' = "thrown"
            /\ err' = ValidationError(inp)
            /\ UNCHANGED <<req, attempt, backoffMs>>
       ELSE /\ req' = Some(RequestOf(inp))
            /\ attempt' = 0 + 1
            /\ backoffMs' = InitialBackoffMs
            /\ pc' = "fetching"
            /\ UNCHANGED err
    /\ UNCHANGED <<inp, retryKind, waitMs, res, body, seen, waits, outputs, failures>>

\* requestWithRetries, lines 142-186: fetch resolved with a response
FetchResolves ==
    /\ pc = "fetching"
    /\ \E r \in Responses :
         /\ res' = Some(r)
         /\ seen' = seen \cup {"response"}
         /\ IF IsRateLimited(r.status) /\ AttemptsRemain(attempt)
            THEN IF Truthy(r.retryAfter)
                    /\ ~parseInteger("Retry-After", r.retryAfter.v).ok
                 THEN Catch(InvalidInteger("Retry-After"))
                 ELSE Sleep("429", RetryAfterWait(r.retryAfter, backoffMs))
            ELSE IF IsServerError(r.status) /\ AttemptsRemain(attempt)
            THEN Sleep("5xx", backoffMs)
            ELSE /\ pc' = "reading"
                 /\ UNCHANGED <<retryKind, waitMs, waits, err>>
    /\ UNCHANGED <<inp, req, attempt, backoffMs, body, outputs, secrets, failures,
                   calls>>

FetchRejects_NoWait ==
    /\ pc = "fetching"
    /\ \E id \in TransportErrors :
         IF Exhausted(attempt)
         THEN Throw(TransportError(id)) /\ UNCHANGED <<attempt, backoffMs>>
         ELSE /\ attempt' = attempt + 1
              /\ backoffMs' = NextBackoff(backoffMs)
              /\ UNCHANGED <<pc, retryKind, waitMs, waits, err>>
    /\ seen' = seen \cup {"rejection"}
    /\ res' = Undefined
    /\ UNCHANGED <<inp, req, body, outputs, secrets, failures, calls>>

\* requestWithRetries, lines 187-198: fetch rejected
FetchRejects ==
    /\ pc = "fetching"
    /\ \E id \in TransportErrors : Catch(TransportError(id))
    /\ seen' = seen \cup {"rejection"}
    /\ res' = Undefined
    /\ UNCHANGED <<inp, req, attempt, backoffMs, body, outputs, secrets, failures,
                   calls>>

SleepDone_NoAttemptLine ==
    /\ pc = "sleeping"
    /\ backoffMs' = NextBackoff(backoffMs)
    /\ attempt' = attempt + 1
    /\ pc' = "fetching"
    /\ retryKind' = ""
    /\ waitMs' = 0
    /\ res' = Undefined
    /\ UNCHANGED <<inp, req, body, err, seen, waits, outputs, secrets, failures,
                   calls>>

\* the sleep ended: double the backoff, loop, next fetch (lines 164, 182, 197, 138-142)
SleepDone ==
    /\ pc = "sleeping"
    /\ backoffMs' = NextBackoff(backoffMs)
    /\ attempt' = attempt + 1
    /\ pc' = "fetching"
    /\ retryKind' = ""
    /\ waitMs' = 0
    /\ res' = Undefined
    /\ calls' = Append(calls, Call("info", "attempt", <<attempt + 1, MAX_ATTEMPTS>>))
    /\ UNCHANGED <<inp, req, body, err, seen, waits, outputs, secrets, failures>>

BodyRead_OutputsBeforeOkCheck ==
    /\ pc = "reading"
    /\ \E rawText \in Bodies :
         LET payload == readJsonSafely(rawText)
             op == OperationOf(inp)
         IN /\ body' = Some(rawText)
            /\ IF payload.t = "null"
               THEN /\ pc' = "thrown"
                    /\ err' = NullPayloadTypeError
                    /\ calls' = calls \o ResponseBodyCalls[rawText]
                    /\ UNCHANGED <<outputs, secrets>>
               ELSE /\ outputs' = OutputsOf(op, payload)
                    /\ secrets' =
                         IF op = "create" /\ Get(payload, "admin_key") # Undefined
                            /\ Get(payload, "admin_key")[1].t = "string"
                         THEN secrets \cup {Get(payload, "admin_key")[1].s}
                         ELSE secrets
                    /\ calls' = calls \o ResponseBodyCalls[rawText]
                                      \o InterpretationCalls[op][rawText]
                    /\ IF ~Ok(res[1].status)
                       THEN /\ pc' = "thrown"
                            /\ err' = HttpError(payload, res[1].status, op)
                       ELSE /\ pc' = "done"
                            /\ UNCHANGED err
    /\ UNCHANGED <<inp, req, attempt, backoffMs, retryKind, waitMs, res, seen,
                   waits, failures>>

\* run, lines 284-322: the body of the final response arrived
BodyRead ==
    /\ pc = "reading"
    /\ \E rawText \in Bodies :
         LET payload == readJsonSafely(rawText)
             op == OperationOf(inp)
         IN /\ body' = Some(rawText)
            /\ IF ~Ok(res[1].status)
               THEN /\ pc' = "thrown"
                    /\ err' = HttpError(payload, res[1].status, op)
                    /\ calls' = calls \o ResponseBodyCalls[rawText]
                    /\ UNCHANGED <<outputs, secrets>>
               ELSE IF payload.t = "null"
               THEN /\ pc' = "thrown"
                    /\ err' = NullPayloadTypeError
                    /\ calls' = calls \o ResponseBodyCalls[rawText]
                    /\ UNCHANGED <<outputs, secrets>>
               ELSE /\ pc' = "done"
                    /\ outputs' = OutputsOf(op, payload)
                    /\ secrets' =
                         IF op = "create" /\ Get(payload, "admin_key") # Undefined
                            /\ Get(payload, "admin_key")[1].t = "string"
                         THEN secrets \cup {Get(payload, "admin_key")[1].s}
                         ELSE secrets
                    /\ calls' = calls \o ResponseBodyCalls[rawText]
                                      \o InterpretationCalls[op][rawText]
                    /\ UNCHANGED err
    /\ UNCHANGED <<inp, req, attempt, backoffMs, retryKind, waitMs, res, seen,
                   waits, failures>>

RunCatch_Missing ==
    /\ pc = "thrown"
    /\ UNCHANGED vars

\* run().catch, lines 324-327
RunCatch ==
    /\ pc = "thrown"
    /\ failures' = Append(failures, err)
    /\ calls' = Append(calls, Call("setFailed", "", err))
    /\ pc' = "failed"
    /\ UNCHANGED <<inp, req, attempt, backoffMs, retryKind, waitMs, res, body,
                   err, seen, waits, outputs, secrets>>

Next ==
    \/ Run
    \/ FetchResolves
    \/ FetchRejects
    \/ SleepDone
    \/ BodyRead
    \/ RunCatch

Spec == Init /\ [][Next]_vars

(***************************************************************************)
(* Properties                                                              *)
(***************************************************************************)
Operation == OperationOf(inp)

\* requestWithRetries returned res to run
Returned == pc \in {"reading", "thrown", "failed", "done"} /\ res # Undefined

Retryable(status) == status = 429 \/ (status >= 500 /\ status <= 599)

NonBlank(s) == \E i \in 1..Len(s) : s[i] # " "

IsIntegerText(s) == ~Number(s).nan /\ Number(s).integer

(* C1: whatever mix of 429 responses, 5xx responses, transport failures and
   other statuses the remote side produces, one invocation performs at most
   5 fetch attempts (and so at most 4 waits): the one attempt counter bounds
   all three retry kinds. *)
C1_AtMostFiveAttempts == attempt <= 5 /\ Len(waits) <= 4

C1_Witness ==
    /\ attempt = 5
    /\ seen = {"response", "rejection"}
    /\ waits[1] = 2

(* C2: when every attempt receives a retryable HTTP status (429 or 5xx), the
   executor returns only at the 5th attempt, with the response of that
   attempt, never throws a transport error, and the invocation fails as a
   non-2xx failure built from that response. *)
C2_RetryableStatusesExhaust ==
    (seen = {"response"} /\ res # Undefined /\ Retryable(res[1].status)) =>
        /\ pc \in {"sleeping", "reading", "thrown", "failed"}
        /\ pc = "sleeping" => attempt < 5
        /\ pc \in {"reading", "thrown", "failed"} => attempt = 5 /\ Len(waits) = 4
        /\ pc \in {"thrown", "failed"} =>
              /\ err.kind \in {"PayloadError", "StatusError"}
              /\ err.op = Operation
              /\ err.kind = "StatusError" => err.status = res[1].status
        /\ pc = "failed" => failures = <<err>>

C2_Witness ==
    /\ pc = "failed"
    /\ seen = {"response"}
    /\ attempt = 5
    /\ waits = <<500, 1000, 2000, 4000>>
    /\ res[1].status = 503
    /\ failures = <<StatusError(503, Operation)>>

(* C3: when every attempt ends in a transport failure, the waits between the
   attempts are the backoff 500, 1000, 2000, 4000, the executor gives up at
   exactly the 5th attempt, and the invocation fails with the transport
   error itself: no response is returned and no HTTP-status error is made. *)
C3_TransportFailuresExhaust ==
    seen = {"rejection"} =>
        /\ \A i \in 1..Len(waits) : waits[i] = 500 * 2^(i - 1)
        /\ pc \in {"fetching", "sleeping", "thrown", "failed"}
        /\ pc \in {"fetching", "sleeping"} => attempt <= 5
        /\ pc = "sleeping" => waitMs = backoffMs
        /\ pc \in {"thrown", "failed"} =>
              /\ attempt = 5
              /\ Len(waits) = 4
              /\ err.kind = "Transport"
              /\ res = Undefined
              /\ body = Undefined
        /\ pc = "failed" => failures = <<err>>

C3_Witness ==
    /\ pc = "failed"
    /\ seen = {"rejection"}
    /\ attempt = 5
    /\ waits = <<500, 1000, 2000, 4000>>
    /\ failures = <<TransportError("ETIMEDOUT")>>

(* C4, as claimed: on a 429 response with attempts remaining the wait equals
   the integer value of the Retry-After header when the header is present,
   and the current backoff when it is absent. *)
C4_WaitIsRetryAfterValue ==
    (pc = "sleeping" /\ res # Undefined /\ res[1].status = 429) =>
        LET ra == res[1].retryAfter IN
        /\ (ra.present /\ ra.v # <<>> /\ IsIntegerText(ra.v)) =>
              waitMs = Number(ra.v).v
        /\ ~ra.present => waitMs = backoffMs

(* C4, amended: on a 429 response with attempts remaining the wait is the
   integer value of the Retry-After header, but never less than 0, when the
   header is present, not empty and an integer; it is the current backoff
   when the header is absent or empty.  For [429 with Retry-After=2, 429
   without header, 200] the waits are 2 and then the backoff (1000), and the
   200 response is returned at the 3rd attempt. *)
C4_WaitOn429 ==
    /\ (pc = "sleeping" /\ res # Undefined /\ res[1].status = 429) =>
          LET ra == res[1].retryAfter IN
          /\ waits[Len(waits)] = waitMs
          /\ (ra.present /\ ra.v # <<>> /\ IsIntegerText(ra.v)) =>
                waitMs = (IF Number(ra.v).v < 0 THEN 0 ELSE Number(ra.v).v)
          /\ (~ra.present \/ ra.v = <<>>) => waitMs = backoffMs
    /\ (pc = "sleeping" /\ res = Some(Response(429, NoHeader)) /\ waits[1] = 2
        /\ attempt = 2) => waits = <<2, 1000>>
    /\ (Returned /\ res[1].status = 200 /\ waits = <<2, 1000>>) => attempt = 3

C4_Witness ==
    /\ pc = "reading"
    /\ res[1].status = 200
    /\ attempt = 3
    /\ waits = <<2, 1000>>
    /\ seen = {"response"}

(* C5: a response whose status is neither 429 nor 5xx ends the executor at
   the attempt that received it: the step that receives it and every later
   step leave the attempt counter and the waits as they are, and the
   invocation is past the retry loop. *)
C5_OtherStatusReturnedAtOnce ==
    [][(res' # Undefined /\ ~Retryable(res'[1].status)) =>
          /\ pc' \in {"reading", "thrown", "failed", "done"}
          /\ attempt' = attempt
          /\ waits' = waits]_vars

C5_Witness ==
    /\ pc = "failed"
    /\ res # Undefined
    /\ res[1].status = 302
    /\ attempt = 3
    /\ Len(waits) = 2

(* C6: a 429 response with attempts remaining whose Retry-After is not an
   integer makes the invocation fail with the invalid Retry-After error,
   without a further attempt. *)
C6_MalformedRetryAfterFails ==
    (/\ res # Undefined
     /\ res[1].status = 429
     /\ attempt < 5
     /\ res[1].retryAfter.present
     /\ res[1].retryAfter.v # <<>>
     /\ ~IsIntegerText(res[1].retryAfter.v)) =>
        /\ pc \in {"thrown", "failed"}
        /\ err = InvalidInteger("Retry-After")

(* C7: once a request has been dispatched, an operation set, update, reset
   or delete has a non-blank admin credential, and an operation set or
   update has a non-blank value that parsed as a finite integer. *)
C7_DispatchedRequestIsAuthorised ==
    attempt >= 1 =>
        /\ Operation \in {"set", "update", "reset", "delete"} =>
              NonBlank(inp.admin_key)
        /\ Operation \in {"set", "update"} =>
              NonBlank(inp.value) /\ IsIntegerText(inp.value)

C7_Witness ==
    /\ attempt >= 1
    /\ Operation = "update"
    /\ inp.value = <<"-", "3">>
    /\ inp.admin_key = <<"t", "o", "k">>

NameOk(s) ==
    /\ Len(s) >= 3
    /\ Len(s) <= 64
    /\ \A i \in 1..Len(s) : s[i] \in Lower \cup Upper \cup Digit \cup {"_", "-", "."}

(* C8: no request is dispatched for invalid inputs: the namespace and the
   key match the name pattern, the operation is one of the eight
   operations, create has an integer initializer, set and update have an
   integer value, and an admin operation has its credential. *)
C8_ValidationBeforeNetwork ==
    attempt >= 1 =>
        /\ NameOk(inp.namespace)
        /\ NameOk(inp.key)
        /\ Operation \in {"hit", "create", "get", "info", "set", "update",
                          "reset", "delete"}
        /\ Operation = "create" => IsIntegerText(InitializerRawOf(inp))
        /\ Operation \in {"set", "update"} =>
              NonBlank(inp.value) /\ IsIntegerText(inp.value)
        /\ Operation \in {"set", "update", "reset", "delete"} =>
              NonBlank(inp.admin_key)

(* C9: once the executor has returned a final response and the invocation
   has ended, it has succeeded if and only if the status is 2xx, whatever
   the body was. *)
C9_SuccessIffStatus2xx ==
    (pc \in {"done", "failed"} /\ res # Undefined) =>
        (pc = "done" <=> (res[1].status >= 200 /\ res[1].status <= 299))

(* C10: when the final response is non-2xx, the invocation fails with one
   message: the payload's error field when it is a string (the raw text of a
   non-JSON body included), otherwise the generic message with the status
   code; either way the message names the operation. *)
C10_FailureMessage ==
    (Returned /\ body # Undefined
     /\ ~(res[1].status >= 200 /\ res[1].status <= 299)) =>
        /\ pc \in {"thrown", "failed"}
        /\ err = (IF body[1] = "Bad Gateway"
                  THEN PayloadError(<<"Bad Gateway">>, Operation)
                  ELSE IF body[1] = "{\"error\":\"boom\"}"
                  THEN PayloadError(<<"boom">>, Operation)
                  ELSE StatusError(res[1].status, Operation))
        /\ pc = "failed" => failures = <<err>>

C10_Witness ==
    /\ pc = "failed"
    /\ res # Undefined
    /\ res[1].status = 404
    /\ body = Some("Bad Gateway")
    /\ failures = <<PayloadError(<<"Bad Gateway">>, Operation)>>

\* the output fields the README's Outputs table gives for an operation
DocumentedOutputs(op) ==
    (IF op \in {"hit", "create", "get", "set", "reset", "update"}
     THEN {"value"} ELSE {})
    \cup (IF op = "create" THEN {"namespace", "key", "admin_key"} ELSE {})
    \cup (IF op = "info"
          THEN {"exists", "expires_in", "expires_str", "full_key", "is_genuine"}
          ELSE {})
    \cup (IF op = "delete" THEN {"status", "message"} ELSE {})

OutputNames == {outputs[i][1] : i \in 1..Len(outputs)}

(* C11: on success, every output field written is one of the fields of the
   invocation's operation (value only for hit, create, get, set, reset and
   update; namespace, key, admin_key only for create; the five info fields
   only for info; status, message only for delete), and is present and not
   null in the payload. *)
C11_OutputsAreTheOperationsFields ==
    (pc = "done" /\ Operation \in Operations) =>
        \A name \in OutputNames :
            /\ name \in DocumentedOutputs(Operation)
            /\ Get(readJsonSafely(body[1]), name) # Undefined
            /\ Get(readJsonSafely(body[1]), name)[1].t # "null"

(* C12: every dispatched request uses GET for hit, create, get, info and
   POST for set, update, reset, delete, always carries Accept:
   application/json, and carries Authorization: Bearer <admin key> exactly
   when the operation is one of set, update, reset, delete; the request
   (method, URL, headers) is the same at every attempt. *)
C12_MethodAndHeaders ==
    /\ [](attempt >= 1 =>
            /\ req # Undefined
            /\ Operation \in {"hit", "create", "get", "info"} => req[1].method = "GET"
            /\ Operation \in {"set", "update", "reset", "delete"} => req[1].method = "POST"
            /\ <<"Accept", <<"application/json">> >> \in req[1].headers
            /\ \A h \in req[1].headers : h[1] \in {"Accept", "Authorization"}
            /\ (\E h \in req[1].headers : h[1] = "Authorization")
                 <=> Operation \in {"set", "update", "reset", "delete"}
            /\ \A h \in req[1].headers :
                 h[1] = "Authorization" => h[2] = <<"Bearer ">> \o inp.admin_key)
    /\ [][req # Undefined => req' = req]_vars

C12_Witness ==
    /\ attempt = 3
    /\ pc = "fetching"
    /\ Operation = "hit"
    /\ inp.admin_key = <<"t", "o", "k">>
    /\ req[1].method = "GET"
    /\ req[1].headers = {<<"Accept", <<"application/json">> >>}

QueryNames(url) == {url.query[j][1] : j \in 1..Len(url.query)}

(* C13: the URL builder attaches initializer only for create and value only
   for set and update, whatever optional values it is handed; hit, get,
   info, reset and delete carry no query parameter; create with initializer
   5 has exactly the query initializer=5. *)
C13_QueryParameters ==
    /\ attempt >= 1 =>
         /\ "initializer" \in QueryNames(req[1].url) <=> Operation = "create"
         /\ "value" \in QueryNames(req[1].url) <=> Operation \in {"set", "update"}
         /\ Operation \in {"hit", "get", "info", "reset", "delete"}
              => req[1].url.query = <<>>
         /\ (Operation = "create" /\ inp.initializer = <<"5">>)
              => req[1].url.query = << <<"initializer", <<"5">> >> >>
    /\ (attempt = 1 /\ pc = "fetching") =>
         \A op \in Operations \cup {"bogus"} :
         \A initializer \in {Undefined, Some(0), Some(5)} :
         \A value \in {Undefined, Some(-3), Some(12)} :
            LET url == buildUrl(op, inp.namespace, inp.key, initializer, value)
            IN /\ "initializer" \in QueryNames(url)
                    <=> (op = "create" /\ initializer # Undefined)
               /\ "value" \in QueryNames(url)
                    <=> (op \in {"set", "update"} /\ value # Undefined)
               /\ Len(url.query) <= 1
               /\ (op = "create" /\ initializer = Some(5))
                    => url.query = << <<"initializer", <<"5">> >> >>
               /\ (op = "update" /\ value = Some(-3))
                    => url.query = << <<"value", <<"-", "3">> >> >>

C13_Witness ==
    /\ attempt = 1
    /\ pc = "fetching"
    /\ Operation = "create"
    /\ inp.initializer = <<"5">>
    /\ inp.value # <<>>
    /\ req[1].url.query = << <<"initializer", <<"5">> >> >>

\* the sleep in progress takes its duration from the backoff, not from Retry-After
WaitFromBackoff ==
    pc = "sleeping"
    /\ (retryKind \in {"5xx", "network"}
        \/ (retryKind = "429" /\ ~Truthy(res[1].retryAfter)))

(* C17: the backoff starts at 500 and doubles (ceiling 8000) after every
   retry of every kind, a 429 retry that waited for Retry-After included:
   during attempt n it is 500 * 2^(n-1), one of 500, 1000, 2000, 4000, 8000;
   every wait taken from the backoff is one of 500, 1000, 2000, 4000, so
   8000 is never waited for. *)
C17_BackoffSchedule ==
    /\ attempt >= 1 =>
         /\ backoffMs = InitialBackoffMs * 2^(attempt - 1)
         /\ backoffMs \in {500, 1000, 2000, 4000, 8000}
    /\ WaitFromBackoff =>
         /\ waitMs = InitialBackoffMs * 2^(attempt - 1)
         /\ waitMs \in {500, 1000, 2000, 4000}
    /\ \A k \in 1..Len(waits) :
         waits[k] >= InitialBackoffMs => waits[k] = InitialBackoffMs * 2^(k - 1)
    /\ \A k \in 1..Len(waits) : waits[k] # MaxBackoffMs

C17_Witness ==
    /\ attempt = 5
    /\ backoffMs = 8000
    /\ waits = <<2, 1000, 0, 4000>>

(* C18: the attempts are strictly sequential: an attempt starts only from
   the start of the invocation or from a completed wait, a wait starts only
   from a resolved attempt, and between two consecutive attempts exactly one
   wait has completed. *)
C18_SequentialAttempts ==
    /\ [](/\ pc = "fetching" => Len(waits) = attempt - 1
          /\ pc = "sleeping" => Len(waits) = attempt)
    /\ [][attempt' # attempt =>
            /\ attempt' = attempt + 1
            /\ pc \in {"start", "sleeping"}
            /\ pc' = "fetching"]_vars
    /\ [][waits' # waits =>
            /\ Len(waits') = Len(waits) + 1
            /\ pc = "fetching"
            /\ pc' = "sleeping"]_vars

C18_Witness ==
    /\ attempt = 4
    /\ pc = "fetching"
    /\ Len(waits) = 3
    /\ seen = {"response", "rejection"}

Contains(text, part) ==
    \E i \in 1..(Len(text) - Len(part) + 1) :
        SubSeq(text, i, i + Len(part) - 1) = part

\* the spellings of the credential-like names
CredentialNames ==
    {"admin_key", "ADMIN_KEY", "Admin_Key",
     "authorization", "Authorization", "AUTHORIZATION"}

\* the string values of the credential-named fields of a value, at any depth
RECURSIVE CredentialValues(_)
CredentialValues(v) ==
    IF v.t # "object" THEN {}
    ELSE UNION {IF k \in CredentialNames
                THEN (IF v.f[k].t = "string" THEN {v.f[k].s} ELSE {})
                ELSE CredentialValues(v.f[k]) : k \in DOMAIN v.f}

LoggedTexts ==
    {calls[j].arg : j \in {i \in 1..Len(calls) :
                             calls[i].tag \in {"response body", "outputs"}}}

(* C14: for every structured value passed to the redacting logger, the
   value of any field, at any depth, whose name is admin_key or
   authorization in any letter case does not appear in the logged text. *)
C14_CredentialFieldsMasked ==
    (body # Undefined /\ readJsonSafely(body[1]).t = "object") =>
        \A text \in LoggedTexts :
        \A secret \in CredentialValues(readJsonSafely(body[1])) :
            ~Contains(text, secret)

MarkedBefore(j, v) ==
    \E i \in 1..(j - 1) : calls[i].fn = "setSecret" /\ calls[i].arg = v

(* C15: every credential value is marked as a secret before a later step
   logs it or writes it as an output: the admin_key input of an admin
   operation before the request is dispatched, the admin_key a successful
   create returns before the response body is logged and before the
   admin_key output is written. *)
C15_MarkedBeforeUse ==
    /\ (attempt >= 1 /\ isAdminOp(Operation)) =>
         /\ inp.admin_key \in secrets
         /\ \A j \in 1..Len(calls) :
              calls[j].tag = "request" => MarkedBefore(j, inp.admin_key)
    /\ \A j \in 1..Len(calls) :
         (calls[j].fn = "setOutput" /\ calls[j].tag = "admin_key")
             => MarkedBefore(j, calls[j].arg)
    /\ (pc = "done" /\ Operation = "create"
        /\ Get(readJsonSafely(body[1]), "admin_key") # Undefined
        /\ Get(readJsonSafely(body[1]), "admin_key")[1].t = "string") =>
         \A j \in 1..Len(calls) :
            calls[j].tag = "response body"
                => MarkedBefore(j, Get(readJsonSafely(body[1]), "admin_key")[1].s)

(* C16: an invocation that ends in failure (validation error, exhausted
   transport failures, non-2xx final response, error raised while the
   response is interpreted) has written no output, and an invocation that
   has written an output does not end in failure. *)
C16_NoPartialSuccess ==
    /\ pc \in {"thrown", "failed"} =>
         /\ outputs = <<>>
         /\ \A j \in 1..Len(calls) : calls[j].fn # "setOutput"
    /\ outputs # <<>> => (pc = "done" /\ failures = <<>>)
    /\ failures # <<>> => outputs = <<>>

C16_Witness ==
    /\ pc = "failed"
    /\ res # Undefined
    /\ res[1].status = 200
    /\ body = Some("null")
    /\ outputs = <<>>
    /\ failures = <<NullPayloadTypeError>>

RequestLines == SelectSeq(calls, LAMBDA c : c.tag = "request")

AttemptLines == SelectSeq(calls, LAMBDA c : c.tag = "attempt")

\* C19 as stated: the method and the URL are logged before every attempt,
\* the first and each retry, together with the attempt index
C19_RequestLoggedBeforeEveryAttempt ==
    attempt >= 1 =>
        /\ Len(AttemptLines) = attempt
        /\ Len(RequestLines) = attempt

(* C19: before the first attempt the executor logs the method and the URL,
   once in the invocation; before every attempt, the first and each retry,
   it logs the attempt index; no logged line carries the request headers. *)
C19_RequestLoggedOnce ==
    attempt >= 1 =>
        /\ RequestLines = <<Call("info", "request",
                                 [method |-> req[1].method, url |-> req[1].url])>>
        /\ AttemptLines = [n \in 1..attempt |->
                              Call("info", "attempt", <<n, MAX_ATTEMPTS>>)]
        /\ \A i, j \in 1..Len(calls) :
              (calls[i].tag = "request" /\ calls[j].tag = "attempt") => i < j
        /\ \A h \in req[1].headers : \A text \in LoggedTexts :
              h[1] = "Authorization" => ~Contains(text, h[2])

C19_Witness ==
    /\ attempt = 3
    /\ pc = "fetching"
    /\ Operation = "reset"
    /\ Len(RequestLines) = 1
    /\ Len(AttemptLines) = 3

\* the invocations that supply none of the optional inputs their operation
\* never reads
InitRead ==
    /\ Init
    /\ \A f \in UnusedInputs(inp.operation) : inp[f] = <<>>

\* the event loop runs a callback that is ready: every fetch and every wait
\* completes, and the code that follows it runs
FairSpec == InitRead /\ [][Next]_vars /\ WF_vars(Next)

Terminated == pc \in {"done", "failed"}

(* C20: provided every fetch and every wait completes, every invocation
   eventually terminates, in exactly one of two final states: success with
   no failure message, or failure with a single message; nothing runs after
   the final state. *)
C20_Terminates ==
    /\ <>Terminated
    /\ [](pc = "done" => failures = <<>>)
    /\ [](pc = "failed" => Len(failures) = 1)
    /\ [][~Terminated]_vars

C20_Witness ==
    /\ pc = "failed"
    /\ attempt = 5
    /\ seen = {"rejection"}
    /\ Len(failures) = 1

====
